---------------------------- MODULE Spec2Model ----------------------------
(***************************************************************************)
(* The three flight scripts of qualisys/crazyflie-resources as one state   *)
(* machine:                                                                *)
(*   "follow"  python-examples/bam2021/follow.py                           *)
(*   "body"    python/example-follow-body.py                               *)
(*   "hover"   python/example-simple-hover.py                              *)
(* The variable script says which of them the session runs.                *)
(*                                                                         *)
(* Lengths.  The scripts compute in metres with floats; every length of    *)
(* the settings is a multiple of 0.01 m, so the model holds metres as      *)
(* integers in hundredths of a metre (x_max = 1.0 m is 100).  QTM delivers *)
(* millimetres, and the feed's samples are multiples of 10 mm.  A float    *)
(* NaN is the value NaN, with Python's comparison rules (every comparison  *)
(* with NaN is false) in PyLt and PyEq.                                    *)
(***************************************************************************)
EXTENDS Integers, Sequences, FiniteSets, TLC

\* ------------------------------------------------------------------ bounds

\* follow.py: most consecutive invalid vehicle frames the full feed delivers.
MaxInvalidRun == 1
\* follow.py: most 0.1 m offset steps (summed over the axes) away from the
\* configured offset.
MaxOffsetSteps == 1
\* Frames the feed still delivers once a frame-loss counter is past its
\* threshold.
MaxOverrun == 1
\* Most entries of the variance window that differ from the steady value.
MaxNoisy == 1

\* --------------------------------------------------------------- float NaN

NaN == 1000000

IsNaN(v) == v = NaN

\* a < b on Python floats
PyLt(a, b) == ~IsNaN(a) /\ ~IsNaN(b) /\ a < b

\* a == b on Python floats
PyEq(a, b) == ~IsNaN(a) /\ ~IsNaN(b) /\ a = b

\* min(a, b): b when b < a, else a
PyMin(a, b) == IF PyLt(b, a) THEN b ELSE a

\* a + b on Python floats
PyAdd(a, b) == IF IsNaN(a) \/ IsNaN(b) THEN NaN ELSE a + b

\* max(a, b): b when b > a, else a
PyMax(a, b) == IF PyLt(a, b) THEN b ELSE a

\* coord / 1000 (QTM millimetres to metres, here hundredths of a metre)
MmToM(v) == IF IsNaN(v) THEN NaN ELSE v \div 10

\* ------------------------------------------------- follow.py: the settings

cf_body_name == "CF"
controller_body_names == <<"car">>

x_min == -100
x_max == 100
y_min == -200
y_max == 100
z_min == 0
z_max == 150
safeZone_margin == 20
controller_offset_init == <<0, 0, 50>>
cf_trackingLoss_treshold == 200
\* the bounding box of lines 49-54 as one value
BoundingBox ==
    [x_min |-> x_min, x_max |-> x_max, y_min |-> y_min, y_max |-> y_max,
     z_min |-> z_min, z_max |-> z_max]
\* the 0.1 m step of the offset keys
OffsetStep == 10

\* -------- example-follow-body.py and example-simple-hover.py: the settings

CRAZYFLIE_RIGIDBODY_NAME == "Crazyflie"
TARGET_RIGIDBODY_NAME == "Tiara"
BODY_FRAME_LOSS_THRESHOLD == 6
HOVER_FRAME_LOSS_THRESHOLD == 3
\* (X, Y, Z, Yaw)
BODY_HOME_POSITION == <<0, 0, 50, 0>>
HOVER_HOME_POSITION == <<0, 0, 30, 0>>
AWAY_POSITION == <<10, 10, 50, 0>>
\* (X, Y, Z)
FOLLOW_OFFSET == <<100, 100, 10>>

\* helpers.convert_coords_to_setpoint: (X, Y, Z, Yaw) to (Y, X, Yaw, Thrust),
\* the thrust int(Z * 1000)
convert_coords_to_setpoint(coords) ==
    <<coords[2], coords[1], coords[4], coords[3] * 10>>

\* ------------------------------------------------------ follow.py: helpers

\* Pose(x, y, z): the position of a pose
Pose(x, y, z) == <<x, y, z>>

\* Pose.from_qtm_6d / Pose.from_qtm_6deuler: the position, in metres
PoseFromQtm(body) == Pose(MmToM(body[1]), MmToM(body[2]), MmToM(body[3]))

\* cf_trackingLoss += 1 (222); trackingFramesLost += 1 in the examples
CountLostMutSet(n) == 1
CountLost(n) == n + 1

\* Pose.is_valid
IsValidMutNoCheck(p) == TRUE
is_valid(p) == PyEq(p[1], p[1]) /\ PyEq(p[2], p[2]) /\ PyEq(p[3], p[3])

\* lo - safeZone_margin < v < hi + safeZone_margin
InsideMutClosed(v, lo, hi) ==
    ~PyLt(v, lo - safeZone_margin) /\ ~PyLt(hi + safeZone_margin, v)
Inside(v, lo, hi) ==
    PyLt(lo - safeZone_margin, v) /\ PyLt(v, hi + safeZone_margin)

\* max(lo, min(v, hi))
ClampMutMargin(v, lo, hi) ==
    PyMax(lo - safeZone_margin, PyMin(v, hi + safeZone_margin))
Clamp(v, lo, hi) == PyMax(lo, PyMin(v, hi))

\* cf_trackingLoss > cf_trackingLoss_treshold
TrackingLostMutGeq(n) == n >= cf_trackingLoss_treshold
TrackingLost(n) == n > cf_trackingLoss_treshold

\* range(5, 0, -1), and float(z) / 10.0 in metres
LandRangeMutFlat == <<5, 4, 3, 3, 1>>
LandRange == <<5, 4, 3, 2, 1>>
HoverHeight(z) == z * 10

\* the index of name in the body list QTM reports, as enumerate() counts it
\* (0-based); the last one wins for a repeated name
IndexOf(bodies, name) ==
    CHOOSE i \in 0..(Len(bodies) - 1) :
        /\ bodies[i + 1] = name
        /\ \A j \in 0..(Len(bodies) - 1) : bodies[j + 1] = name => j <= i

BodyNames(bodies) == {bodies[i] : i \in 1..Len(bodies)}

\* bodyToIdx after the loop of _connect
BuildBodyToIdx(bodies) ==
    [n \in BodyNames(bodies) |-> IndexOf(bodies, n)]


\* --------------------------------------------------------------- the state

\* setup_estimator (follow.py 278-308) and crazyflie_reset_estimator
\* (helpers.py 37-68).  The Kalman variances are held in units of 0.0001.
HistoryLen == 10
InitialVariance == 10000000
threshold == 10

\* [1000] * 10
InitialHistory == [i \in 1..HistoryLen |-> InitialVariance]

\* history.append(v); history.pop(0)
Push(h, v) == Append(Tail(h), v)

\* min(history), max(history)
SeqMin(h) == CHOOSE m \in {h[i] : i \in 1..Len(h)} :
                \A i \in 1..Len(h) : m <= h[i]
SeqMax(h) == CHOOSE m \in {h[i] : i \in 1..Len(h)} :
                \A i \in 1..Len(h) : m >= h[i]

\* the test of lines 305-307 (helpers.py 63-65)
ConvergedMutNoZ(hx, hy, hz) ==
    /\ SeqMax(hx) - SeqMin(hx) < threshold
    /\ SeqMax(hy) - SeqMin(hy) < threshold
Converged(hx, hy, hz) ==
    /\ SeqMax(hx) - SeqMin(hx) < threshold
    /\ SeqMax(hy) - SeqMin(hy) < threshold
    /\ SeqMax(hz) - SeqMin(hz) < threshold

VARIABLES
    script,            \* which script the session runs
    qtmBodies,         \* the 6DOF bodies of the QTM project, in stream order
    safeZone,          \* follow.py: the bounding box of the settings (49-54)
    \* follow.py: globals and QtmWrapper fields
    fly,
    cf_trackingLoss,
    cf_pose,
    controller_poses,
    controller_select,
    controller_offset, \* <<controller_offset_x, _y, _z>>
    on_cf_pose,        \* TRUE once the callback is installed (line 362)
    bodyToIdx,
    stay_open,         \* QtmWrapper._stay_open
    \* follow.py: where each thread is
    qpc,               \* QtmWrapper thread
    mpc,               \* main thread
    listener,          \* pynput listener thread: "off", "on", "dead"
    controller_pose,   \* main loop's local, <<>> before line 381
    landIdx,           \* position of the landing loop in range(5, 0, -1)
    boxRead,           \* the coordinates lines 370-372 have read this tick
    \* the locals of setup_estimator / crazyflie_reset_estimator, <<>>
    \* before they exist
    var_x_history,
    var_y_history,
    var_z_history,
    \* example-follow-body.py and example-simple-hover.py: globals
    scf,               \* TRUE once the controller thread holds the link
    qtmRigidbodies_idxByName,
    trackingFramesLost,
    follow,
    follow_position,   \* <<>> is None
    target,
    flyAway,
    \* ... and where each thread is
    rpc,               \* the reactor's QTM connection
    cpc,               \* the controller thread
    exited,            \* os._exit has ended the process
    \* what the vehicle link has been sent
    linkOpen,          \* the Crazyflie link is open
    setpoint,          \* the last position setpoint, <<>> before the first
    hover,             \* the heights of the hover setpoints, in order
    extpose,           \* the last pose estimate, <<>> before the first
    stopSent           \* a stop setpoint has been sent

followVars == <<fly, cf_trackingLoss, cf_pose, controller_poses,
                controller_select, controller_offset, on_cf_pose, bodyToIdx,
                stay_open, qpc, mpc, listener, controller_pose, landIdx,
                boxRead>>
estVars == <<var_x_history, var_y_history, var_z_history>>
twVars == <<scf, qtmRigidbodies_idxByName, trackingFramesLost, follow,
            follow_position, target, flyAway, rpc, cpc, exited>>
linkVars == <<linkOpen, setpoint, hover, extpose, stopSent>>
vars == <<script, qtmBodies, safeZone, followVars, estVars, twVars, linkVars>>

\* ------------------------------------------------------ follow.py: the feed

\* Raw 6DOF positions (mm) QTM may report for the Crazyflie body: inside the
\* box; between box and margin on every axis; on the margin in x; beyond the
\* margin in y and on it in z; and with a NaN coordinate.
CfSamples ==
    { <<0, 0, 500>>, <<1100, -2100, 1600>>, <<1200, 0, 500>>,
      <<0, -2250, -200>>, <<0, NaN, 500>> }

\* Raw 6DOF positions (mm) QTM may report for any other body: outside the
\* box on every axis, and with a NaN coordinate.
ControllerSamples == { <<1500, -2500, 1400>>, <<NaN, 500, 500>> }

\* The feed of a tracking-loss run: the vehicle in place, or untracked.
LossCfSamples == { <<0, 0, 500>>, <<NaN, NaN, NaN>> }
LossControllerSamples == { <<500, 500, 500>> }
GateCfSamples == { <<0, 0, 500>> }

\* The body lists a QTM project may hold for follow.py: both bodies, the
\* Crazyflie body missing, the controller body missing.
FollowBodyLists == { <<"car", "CF">>, <<"car">>, <<"CF">> }

\* The body lists a QTM project may hold for the example scripts, of two
\* bodies or more (xmltodict gives qtm_receive_params a list of bodies only
\* then): all bodies there, or a body the script names missing.
BodyBodyLists == { <<"Tiara", "Crazyflie">>, <<"Wand", "Crazyflie">> }
HoverBodyLists == { <<"Wand", "Crazyflie">>, <<"Wand", "Tiara">> }

\* Raw positions (mm) QTM may report to the example scripts.
ExampleCfSamples == { <<0, 0, 300>>, <<0, NaN, 300>> }
ExampleOtherSamples == { <<500, 500, 500>>, <<NaN, NaN, NaN>> }

\* The packets of an example script's feed: the 6deuler component with one
\* raw position per body, or a packet without it.
ExamplePackets(bodies) ==
    { [hasBodies |-> TRUE,
       pos |-> [i \in 1..Len(bodies) |->
                  IF bodies[i] = CRAZYFLIE_RIGIDBODY_NAME THEN c ELSE o]] :
        c \in ExampleCfSamples, o \in ExampleOtherSamples }
    \cup { [hasBodies |-> FALSE, pos |-> <<>>] }

\* The events QTM may send.
QtmEvents == { "EventTrigger", "EventCaptureStopped",
               "EventCameraSettingsChanged", "EventCaptureStarted" }

\* The packets of a feed: one raw position per body of the project in both
\* components, or a packet that lacks the 6d or the 6deuler component.
Packets(bodies, cfS, ctrlS) ==
    { [has6d |-> TRUE, has6deuler |-> TRUE,
       pos |-> [i \in 1..Len(bodies) |->
                  IF bodies[i] = cf_body_name THEN c ELSE k]] :
        c \in cfS, k \in ctrlS }
    \cup { [has6d |-> FALSE, has6deuler |-> TRUE, pos |-> <<>>],
            [has6d |-> TRUE, has6deuler |-> FALSE, pos |-> <<>>] }

\* The log entries (kalman.varPX, varPY, varPZ) the Crazyflie may report: a
\* settled estimator reports the steady entry; the wide feed also reports an
\* entry within the threshold of it, and an entry exactly the threshold away
\* on z.
SteadyEntry == <<2, 2, 2>>
VarianceEntries == { SteadyEntry }
GateVarianceEntries == { SteadyEntry, <<7, 7, 7>>, <<2, 2, 12>> }

\* how many entries of the window are neither the initial fill nor steady
Noisy(hx, hy, hz) ==
    Cardinality({ i \in 1..Len(hx) :
        /\ <<hx[i], hy[i], hz[i]>> # SteadyEntry
        /\ <<hx[i], hy[i], hz[i]>> #
              <<InitialVariance, InitialVariance, InitialVariance>> })

\* ------------------------------------------------------------------- Init

InitLink ==
    /\ linkOpen = FALSE
    /\ setpoint = <<>>
    /\ hover = <<>>
    /\ extpose = <<>>
    /\ stopSent = FALSE

\* follow.py lines 127-131, QtmWrapper.__init__ (141-149): the QTM thread is
\* started, the main thread is about to open the Crazyflie link (351).
InitFollow ==
    /\ fly = TRUE
    /\ cf_trackingLoss = 0
    /\ cf_pose = Pose(0, 0, 0)
    /\ controller_poses = [i \in 1..Len(controller_body_names) |-> Pose(0, 0, 0)]
    /\ controller_select = 0
    /\ controller_offset = controller_offset_init
    /\ on_cf_pose = FALSE
    /\ bodyToIdx = <<>>
    /\ stay_open = TRUE
    /\ qpc = "connect"
    /\ mpc = "connect"
    /\ listener = "off"
    /\ controller_pose = <<>>
    /\ landIdx = 1
    /\ boxRead = <<>>

\* The module globals of the two example scripts (lines 34-39 of each); the
\* reactor is about to connect to QTM and the controller thread to start.
InitExample ==
    /\ scf = FALSE
    /\ qtmRigidbodies_idxByName = <<>>
    /\ trackingFramesLost = 0
    /\ follow = FALSE
    /\ follow_position = <<>>
    /\ target = HOVER_HOME_POSITION
    /\ flyAway = FALSE
    /\ rpc = "connecting"
    /\ cpc = "start"
    /\ exited = FALSE

\* setup_estimator has not been called
InitEstimator ==
    /\ var_x_history = <<>>
    /\ var_y_history = <<>>
    /\ var_z_history = <<>>

Init ==
    /\ \/ script = "follow" /\ qtmBodies \in FollowBodyLists
       \/ script = "body" /\ qtmBodies \in BodyBodyLists
       \/ script = "hover" /\ qtmBodies \in HoverBodyLists
    /\ safeZone = BoundingBox
    /\ InitFollow
    /\ InitEstimator
    /\ InitExample
    /\ InitLink

\* --------------------------------------------- follow.py: QtmWrapper thread

\* QtmWrapper._connect (164-191)
QtmConnect ==
    /\ script = "follow"
    /\ qpc = "connect"
    /\ bodyToIdx' = BuildBodyToIdx(qtmBodies)
    /\ stay_open' =
         IF /\ cf_body_name \in BodyNames(qtmBodies)
            /\ \A i \in 1..Len(controller_body_names) :
                   controller_body_names[i] \in BodyNames(qtmBodies)
         THEN stay_open
         ELSE FALSE
    /\ qpc' = "streaming"
    /\ UNCHANGED <<script, qtmBodies, safeZone, estVars, boxRead, twVars, fly,
                   cf_trackingLoss, cf_pose, controller_poses,
                   controller_select, controller_offset, on_cf_pose, mpc,
                   listener, controller_pose, landIdx, linkVars>>

\* The controllers whose data line 227 can look up: the loop stops with a
\* KeyError at the first controller body the table lacks.
Reached(i) ==
    \A j \in 1..i : controller_body_names[j] \in DOMAIN bodyToIdx

\* QtmWrapper._on_packet (194-230) on packet pkt
OnPacketBody(pkt) ==
    IF ~pkt.has6d \/ ~pkt.has6deuler
    THEN UNCHANGED <<cf_pose, cf_trackingLoss, controller_poses, extpose>>
    ELSE IF cf_body_name \notin DOMAIN bodyToIdx
    THEN \* KeyError at line 210
         UNCHANGED <<cf_pose, cf_trackingLoss, controller_poses, extpose>>
    ELSE LET x_cf_pose == PoseFromQtm(pkt.pos[bodyToIdx[cf_body_name] + 1])
             ctl(i) == PoseFromQtm(pkt.pos[bodyToIdx[controller_body_names[i]] + 1])
         IN  /\ IF is_valid(x_cf_pose)
                THEN /\ cf_pose' = x_cf_pose
                     /\ IF on_cf_pose
                        THEN /\ extpose' = x_cf_pose
                             /\ cf_trackingLoss' = 0
                        ELSE UNCHANGED <<extpose, cf_trackingLoss>>
                ELSE /\ cf_trackingLoss' = CountLost(cf_trackingLoss)
                     /\ UNCHANGED <<cf_pose, extpose>>
             /\ controller_poses' =
                  [i \in 1..Len(controller_body_names) |->
                     IF Reached(i) /\ is_valid(ctl(i))
                     THEN ctl(i)
                     ELSE controller_poses[i]]

\* _on_packet runs on a packet the open stream delivers
Deliver(pkt) ==
    /\ script = "follow"
    /\ qpc = "streaming"
    /\ UNCHANGED <<script, qtmBodies, safeZone, estVars, boxRead, twVars, fly,
                   controller_select, controller_offset, on_cf_pose,
                   bodyToIdx, stay_open, qpc, mpc, listener, controller_pose,
                   landIdx, linkOpen, setpoint, hover, stopSent>>
    /\ OnPacketBody(pkt)

\* A packet of the feed arrives; the feed stops delivering frames that count
\* as lost at cap of them in a row.
OnPacketFrom(cfS, ctrlS, cap) ==
    \E pkt \in Packets(qtmBodies, cfS, ctrlS) :
        /\ Deliver(pkt)
        /\ cf_trackingLoss' <= cap

OnPacket == OnPacketFrom(CfSamples, ControllerSamples, MaxInvalidRun)

\* the feed of a tracking-loss run
OnPacketLoss ==
    OnPacketFrom(LossCfSamples, LossControllerSamples,
                 cf_trackingLoss_treshold + MaxOverrun)

\* QtmWrapper._life_cycle leaves its loop (160-162) and _close (232-234)
QtmClose ==
    /\ script = "follow"
    /\ qpc = "streaming"
    /\ ~stay_open
    /\ qpc' = "closed"
    /\ UNCHANGED <<script, qtmBodies, safeZone, estVars, boxRead, twVars, fly,
                   cf_trackingLoss, cf_pose, controller_poses,
                   controller_select, controller_offset, on_cf_pose,
                   bodyToIdx, stay_open, mpc, listener, controller_pose,
                   landIdx, linkVars>>

\* --------------------------------------------------- follow.py: main thread

mainOnly == <<script, qtmBodies, safeZone, twVars, cf_trackingLoss, cf_pose,
              controller_poses, controller_select, controller_offset,
              bodyToIdx, qpc>>

\* with SyncCrazyflie(...) as scf (351-352): the link opens
CfConnect ==
    /\ script = "follow"
    /\ mpc = "connect"
    /\ linkOpen' = TRUE
    /\ mpc' = "setup"
    /\ UNCHANGED <<mainOnly, estVars, boxRead, fly, on_cf_pose, stay_open,
                   listener, controller_pose, landIdx, setpoint, hover,
                   extpose, stopSent>>

\* lines 354-362: the keyboard listener starts, the velocity limits are set,
\* the pose callback is installed
SetupFlight ==
    /\ script = "follow"
    /\ mpc = "setup"
    /\ listener' = "on"
    /\ on_cf_pose' = TRUE
    /\ mpc' = "estimator"
    /\ UNCHANGED <<mainOnly, estVars, boxRead, fly, stay_open,
                   controller_pose, landIdx, linkVars>>

\* The wait of setup_estimator and of crazyflie_reset_estimator: the first
\* step resets the estimator and creates the windows (follow.py 257-282),
\* every later step takes one log entry into the windows (285-293).
WaitForEstimator(entries) ==
    IF var_x_history = <<>>
    THEN /\ var_x_history' = InitialHistory
         /\ var_y_history' = InitialHistory
         /\ var_z_history' = InitialHistory
    ELSE \E data \in entries :
         /\ var_x_history' = Push(var_x_history, data[1])
         /\ var_y_history' = Push(var_y_history, data[2])
         /\ var_z_history' = Push(var_z_history, data[3])
         /\ Noisy(var_x_history', var_y_history', var_z_history') <= MaxNoisy

\* the loop breaks at line 308 on the windows just updated
Breaks ==
    /\ var_x_history # <<>>
    /\ Converged(var_x_history', var_y_history', var_z_history')

\* setup_estimator (254-308), one step of it
SetupEstimatorFrom(entries) ==
    /\ script = "follow"
    /\ mpc = "estimator"
    /\ WaitForEstimator(entries)
    /\ mpc' = IF Breaks THEN "while" ELSE "estimator"
    /\ UNCHANGED <<mainOnly, boxRead, fly, on_cf_pose, stay_open, listener,
                   controller_pose, landIdx, linkVars>>

SetupEstimator == SetupEstimatorFrom(VarianceEntries)
SetupEstimatorGate == SetupEstimatorFrom(GateVarianceEntries)

\* while(fly == True) (367)
WhileFly ==
    /\ script = "follow"
    /\ mpc = "while"
    /\ mpc' = IF fly THEN "box_x" ELSE "land"
    /\ UNCHANGED <<mainOnly, estVars, boxRead, fly, on_cf_pose, stay_open,
                   listener, controller_pose, landIdx, linkVars>>

\* One conjunct of the bounding-box test (370-374): cf_pose is read anew for
\* each axis, and the test stops at the first axis that fails.
CheckAxis(at, axis, lo, hi, next) ==
    /\ script = "follow"
    /\ mpc = at
    /\ boxRead' = Append(boxRead, cf_pose[axis])
    /\ mpc' = IF Inside(cf_pose[axis], lo, hi) THEN next ELSE "land"
    /\ UNCHANGED <<mainOnly, estVars, fly, on_cf_pose, stay_open, listener,
                   controller_pose, landIdx, linkVars>>

CheckX == CheckAxis("box_x", 1, safeZone.x_min, safeZone.x_max, "box_y")
CheckY == CheckAxis("box_y", 2, safeZone.y_min, safeZone.y_max, "box_z")
CheckZ == CheckAxis("box_z", 3, safeZone.z_min, safeZone.z_max, "loss")

\* if cf_trackingLoss > cf_trackingLoss_treshold: break (376-378)
CheckTracking ==
    /\ script = "follow"
    /\ mpc = "loss"
    /\ mpc' = IF TrackingLost(cf_trackingLoss) THEN "land" ELSE "select"
    /\ boxRead' = <<>>   \* the operands of the test at 370-372 are dead
    /\ UNCHANGED <<mainOnly, estVars, fly, on_cf_pose, stay_open, listener,
                   controller_pose, landIdx, linkVars>>

\* controller_poses[controller_select] (381); an index past the list raises
\* IndexError, which leaves the with block (the link closes) and ends the
\* main thread before the landing loop and before qtm_wrapper.close()
SelectValid(i) == i < Len(controller_poses)

SelectController ==
    /\ script = "follow"
    /\ mpc = "select"
    /\ IF SelectValid(controller_select)
       THEN /\ controller_pose' = controller_poses[controller_select + 1]
            /\ mpc' = "send"
            /\ UNCHANGED linkOpen
       ELSE /\ mpc' = "crashed"
            /\ linkOpen' = FALSE
            /\ UNCHANGED controller_pose
    /\ UNCHANGED <<mainOnly, estVars, boxRead, fly, on_cf_pose, stay_open,
                   listener, landIdx, setpoint, hover, extpose, stopSent>>

\* the target of lines 384-390: the controller's position plus the offset,
\* yaw 0
TargetPose(cp, off) ==
    <<PyAdd(cp[1], off[1]), PyAdd(cp[2], off[2]), PyAdd(cp[3], off[3]), 0>>

\* lines 393-395
KeepInBox(t) ==
    <<Clamp(t[1], safeZone.x_min, safeZone.x_max),
      Clamp(t[2], safeZone.y_min, safeZone.y_max),
      Clamp(t[3], safeZone.z_min, safeZone.z_max), t[4]>>

\* lines 384-398: compute the target, clamp it, send it
SendSetpoint ==
    /\ script = "follow"
    /\ mpc = "send"
    /\ setpoint' = KeepInBox(TargetPose(controller_pose, controller_offset))
    /\ controller_pose' = <<>>   \* dead until line 381 assigns it again
    /\ mpc' = "while"
    /\ UNCHANGED <<mainOnly, estVars, boxRead, fly, on_cf_pose, stay_open,
                   listener, landIdx, linkOpen, hover, extpose, stopSent>>

\* one turn of the landing loop (406-408)
LandMutResume ==
    /\ script = "follow"
    /\ mpc = "land"
    /\ IF landIdx <= Len(LandRange)
       THEN /\ hover' = Append(hover, HoverHeight(LandRange[landIdx]))
            /\ landIdx' = landIdx + 1
            /\ UNCHANGED <<mpc, linkOpen>>
       ELSE /\ mpc' = "while"
            /\ UNCHANGED <<hover, landIdx, linkOpen>>
    /\ boxRead' = <<>>
    /\ UNCHANGED <<mainOnly, estVars, fly, on_cf_pose, stay_open, listener,
                   controller_pose, setpoint, extpose, stopSent>>
Land ==
    /\ script = "follow"
    /\ mpc = "land"
    /\ IF landIdx <= Len(LandRange)
       THEN /\ hover' = Append(hover, HoverHeight(LandRange[landIdx]))
            /\ landIdx' = landIdx + 1
            /\ UNCHANGED <<mpc, linkOpen>>
       ELSE \* the with block ends: SyncCrazyflie closes the link
            /\ linkOpen' = FALSE
            /\ mpc' = "close"
            /\ UNCHANGED <<hover, landIdx>>
    /\ boxRead' = <<>>   \* the operands of the test at 370-372 are dead
    /\ UNCHANGED <<mainOnly, estVars, fly, on_cf_pose, stay_open, listener,
                   controller_pose, setpoint, extpose, stopSent>>

\* qtm_wrapper.close() (410, 151-153): clear _stay_open, then join
CloseQtm ==
    /\ script = "follow"
    /\ \/ /\ mpc = "close"
          /\ stay_open' = FALSE
          /\ mpc' = "join"
       \/ /\ mpc = "join"
          /\ qpc = "closed"
          /\ mpc' = "done"
          /\ UNCHANGED stay_open
    /\ UNCHANGED <<mainOnly, estVars, boxRead, fly, on_cf_pose, listener,
                   controller_pose, landIdx, linkVars>>

\* ----------------------------------------------- follow.py: keyboard thread

\* The keys the operator presses in the explored sessions: stop, an offset
\* key, the selection key of the configured controller and the selection key
\* after it.
Keys == {"esc", "a", "1", "2"}

\* the offset a key leaves (317-328)
OffsetAfter(key, off) ==
    CASE key = "a" -> <<off[1] - OffsetStep, off[2], off[3]>>
      [] key = "d" -> <<off[1] + OffsetStep, off[2], off[3]>>
      [] key = "s" -> <<off[1], off[2] - OffsetStep, off[3]>>
      [] key = "w" -> <<off[1], off[2] + OffsetStep, off[3]>>
      [] key = "z" -> <<off[1], off[2], off[3] - OffsetStep>>
      [] key = "x" -> <<off[1], off[2], off[3] + OffsetStep>>
      [] OTHER -> off

\* the selection a key leaves (329-334)
SelectAfter(key, sel) ==
    CASE key = "1" -> 0
      [] key = "2" -> 1
      [] key = "3" -> 2
      [] OTHER -> sel

Abs(n) == IF n < 0 THEN -n ELSE n

\* how many steps the offset is away from the configured one
OffsetSteps(off) ==
    ( Abs(off[1] - controller_offset_init[1])
    + Abs(off[2] - controller_offset_init[2])
    + Abs(off[3] - controller_offset_init[3]) ) \div OffsetStep

\* on_press (311-337).  Line 335 indexes controller_body_names with the
\* selection for every character key: past the list it raises IndexError in
\* the listener thread, which ends that thread with the selection stored.
OnPressFrom(keys) ==
    /\ script = "follow"
    /\ listener = "on"
    /\ mpc \notin {"done"}
    /\ \E key \in keys :
          /\ OffsetSteps(OffsetAfter(key, controller_offset)) <= MaxOffsetSteps
          /\ fly' = IF key = "esc" THEN FALSE ELSE fly
          /\ controller_offset' = OffsetAfter(key, controller_offset)
          /\ controller_select' = SelectAfter(key, controller_select)
          /\ listener' =
               IF key # "esc" /\ ~(SelectAfter(key, controller_select)
                                     < Len(controller_body_names))
               THEN "dead"
               ELSE listener
    /\ UNCHANGED <<script, qtmBodies, safeZone, estVars, boxRead, twVars,
                   cf_trackingLoss, cf_pose, controller_poses, on_cf_pose,
                   bodyToIdx, stay_open, qpc, mpc, controller_pose, landIdx,
                   linkVars>>

OnPress == OnPressFrom(Keys)

\* ------------------------ the example scripts: the reactor's QTM callbacks

IsExample == script \in {"body", "hover"}

FRAME_LOSS_THRESHOLD ==
    IF script = "body" THEN BODY_FRAME_LOSS_THRESHOLD
    ELSE HOVER_FRAME_LOSS_THRESHOLD

exampleFrame == <<script, qtmBodies, safeZone, followVars>>

\* on_qtm_connect (42-54): the parameters are asked for, the stream ordered
on_qtm_connect ==
    /\ IsExample /\ ~exited
    /\ rpc = "connecting"
    /\ rpc' = "parameters"
    /\ UNCHANGED <<exampleFrame, estVars, scf, qtmRigidbodies_idxByName,
                   trackingFramesLost, follow, follow_position, target,
                   flyAway, cpc, exited, linkVars>>

\* qtm_receive_params (57-72); the frames follow QTM's answer
qtm_receive_params ==
    /\ IsExample /\ ~exited
    /\ rpc = "parameters"
    /\ qtmRigidbodies_idxByName' = BuildBodyToIdx(qtmBodies)
    /\ rpc' = "streaming"
    /\ UNCHANGED <<exampleFrame, estVars, scf, trackingFramesLost, follow,
                   follow_position, target, flyAway, cpc, exited, linkVars>>

\* on_qtm_disconnect (75-78)
on_qtm_disconnect ==
    /\ IsExample /\ ~exited
    /\ rpc # "connecting"
    /\ exited' = TRUE
    /\ UNCHANGED <<exampleFrame, estVars, scf, qtmRigidbodies_idxByName,
                   trackingFramesLost, follow, follow_position, target,
                   flyAway, rpc, cpc, linkVars>>

\* on_qtm_event of example-follow-body.py (81-88): every event toggles
BodyEvent(event) ==
    /\ follow' = ~follow
    /\ UNCHANGED <<flyAway, target>>

\* on_qtm_event of example-simple-hover.py (81-101).  os._exit() at line 101
\* is called without its status argument: it raises TypeError in the
\* callback and the process goes on.
HoverEvent(event) ==
    /\ IF event = "EventTrigger"
       THEN /\ flyAway' = ~flyAway
            /\ target' = IF ~flyAway THEN AWAY_POSITION
                         ELSE HOVER_HOME_POSITION
       ELSE UNCHANGED <<flyAway, target>>
    /\ UNCHANGED follow

\* on_qtm_event runs on one event
OnEvent(event) ==
    /\ IsExample /\ ~exited
    /\ rpc # "connecting"
    /\ IF script = "body" THEN BodyEvent(event) ELSE HoverEvent(event)
    /\ UNCHANGED <<exampleFrame, estVars, scf, qtmRigidbodies_idxByName,
                   trackingFramesLost, follow_position, rpc, cpc, exited,
                   linkVars>>

on_qtm_event == \E event \in QtmEvents : OnEvent(event)

\* [coord / 1000.0 for coord in body[0]]
PosFromQtm(body) == <<MmToM(body[1]), MmToM(body[2]), MmToM(body[3])>>

\* any([math.isnan(coord) for coord in pos])
AnyNaN(pos) == \E i \in 1..3 : IsNaN(pos[i])

\* tuple(map(sum, zip(tg_pos, FOLLOW_OFFSET))) + (0,)
FollowPosition(tg_pos) ==
    <<PyAdd(tg_pos[1], FOLLOW_OFFSET[1]), PyAdd(tg_pos[2], FOLLOW_OFFSET[2]),
      PyAdd(tg_pos[3], FOLLOW_OFFSET[3]), 0>>

Row(pkt, name) == pkt.pos[qtmRigidbodies_idxByName[name] + 1]

\* on_qtm_packet of example-follow-body.py (91-122)
BodyPacket(pkt) ==
    IF ~scf \/ ~pkt.hasBodies
    THEN /\ trackingFramesLost' = CountLost(trackingFramesLost)
         /\ UNCHANGED <<follow_position, extpose>>
    ELSE IF \/ CRAZYFLIE_RIGIDBODY_NAME \notin DOMAIN qtmRigidbodies_idxByName
            \/ TARGET_RIGIDBODY_NAME \notin DOMAIN qtmRigidbodies_idxByName
    THEN \* KeyError at line 108 or 109
         UNCHANGED <<trackingFramesLost, follow_position, extpose>>
    ELSE LET cf_pos == PosFromQtm(Row(pkt, CRAZYFLIE_RIGIDBODY_NAME))
             tg_pos == PosFromQtm(Row(pkt, TARGET_RIGIDBODY_NAME))
         IN  IF AnyNaN(cf_pos) \/ AnyNaN(tg_pos)
             THEN /\ trackingFramesLost' = CountLost(trackingFramesLost)
                  /\ UNCHANGED <<follow_position, extpose>>
             ELSE /\ extpose' = cf_pos
                  /\ follow_position' = FollowPosition(tg_pos)
                  /\ trackingFramesLost' = 0

\* on_qtm_packet of example-simple-hover.py (104-131)
HoverPacket(pkt) ==
    /\ UNCHANGED follow_position
    /\ IF ~scf \/ ~pkt.hasBodies
       THEN /\ trackingFramesLost' = CountLost(trackingFramesLost)
            /\ UNCHANGED extpose
       ELSE IF CRAZYFLIE_RIGIDBODY_NAME \notin DOMAIN qtmRigidbodies_idxByName
       THEN \* KeyError at line 118
            UNCHANGED <<trackingFramesLost, extpose>>
       ELSE LET cf_pos == PosFromQtm(Row(pkt, CRAZYFLIE_RIGIDBODY_NAME))
            IN  IF AnyNaN(cf_pos)
                THEN /\ trackingFramesLost' = CountLost(trackingFramesLost)
                     /\ UNCHANGED extpose
                ELSE /\ extpose' = cf_pos
                     /\ trackingFramesLost' = 0

\* on_qtm_packet runs on a packet the stream delivers
ExampleDeliver(pkt) ==
    /\ IsExample /\ ~exited
    /\ rpc = "streaming"
    /\ UNCHANGED <<exampleFrame, estVars, scf, qtmRigidbodies_idxByName,
                   follow, target, flyAway, rpc, cpc, exited, linkOpen,
                   setpoint, hover, stopSent>>
    /\ IF script = "body" THEN BodyPacket(pkt) ELSE HoverPacket(pkt)

\* A packet arrives; the feed stops delivering frames that count as lost at
\* MaxOverrun of them past the threshold.
on_qtm_packet ==
    \E pkt \in ExamplePackets(qtmBodies) :
        /\ ExampleDeliver(pkt)
        /\ trackingFramesLost' <= FRAME_LOSS_THRESHOLD + MaxOverrun

\* ---------------------------- the example scripts: the controller thread

\* crazyflie_controller up to the with statement (125-131, 134-141)
crazyflie_controller ==
    /\ IsExample /\ ~exited
    /\ cpc = "start"
    /\ IF script = "body"
       THEN follow' = FALSE /\ UNCHANGED flyAway
       ELSE flyAway' = FALSE /\ UNCHANGED follow
    /\ cpc' = "connect"
    /\ UNCHANGED <<exampleFrame, estVars, scf, qtmRigidbodies_idxByName,
                   trackingFramesLost, follow_position, target, rpc, exited,
                   linkVars>>

\* with SyncCrazyflie(CRAZYFLIE_URI) as _scf: scf = _scf
ConnectCrazyflie ==
    /\ IsExample /\ ~exited
    /\ cpc = "connect"
    /\ scf' = TRUE
    /\ linkOpen' = TRUE
    /\ cpc' = "estimator"
    /\ UNCHANGED <<exampleFrame, estVars, qtmRigidbodies_idxByName,
                   trackingFramesLost, follow, follow_position, target,
                   flyAway, rpc, exited, setpoint, hover, extpose, stopSent>>

\* helpers.crazyflie_reset_estimator (20-68), one step of it
ResetEstimatorFrom(entries) ==
    /\ IsExample /\ ~exited
    /\ cpc = "estimator"
    /\ WaitForEstimator(entries)
    /\ cpc' = IF Breaks THEN "fly" ELSE "estimator"
    /\ UNCHANGED <<exampleFrame, scf, qtmRigidbodies_idxByName,
                   trackingFramesLost, follow, follow_position, target,
                   flyAway, rpc, exited, linkVars>>

crazyflie_reset_estimator == ResetEstimatorFrom(VarianceEntries)
crazyflie_reset_estimatorGate == ResetEstimatorFrom(GateVarianceEntries)

\* trackingFramesLost <= FRAME_LOSS_THRESHOLD
TrackingGood(n) == n <= FRAME_LOSS_THRESHOLD

\* the coordinates a tick of crazyflie_fly converts: follow-body 163-168,
\* simple-hover 172
TickTarget ==
    IF script = "body"
    THEN (IF follow THEN follow_position ELSE BODY_HOME_POSITION)
    ELSE target

\* one turn of the loop of crazyflie_fly (follow-body 159-174, simple-hover
\* 167-177).  Converting None raises TypeError, which leaves the with block
\* (the link closes) and ends the process in crazyflie_controller's handler.
crazyflie_fly ==
    /\ IsExample /\ ~exited
    /\ cpc = "fly"
    /\ IF TrackingGood(trackingFramesLost)
       THEN IF TickTarget = <<>>
            THEN /\ linkOpen' = FALSE
                 /\ exited' = TRUE
                 /\ UNCHANGED <<setpoint, stopSent>>
            ELSE /\ setpoint' = convert_coords_to_setpoint(TickTarget)
                 /\ UNCHANGED <<linkOpen, exited, stopSent>>
       ELSE /\ stopSent' = TRUE
            /\ exited' = TRUE
            /\ UNCHANGED <<linkOpen, setpoint>>
    /\ UNCHANGED <<exampleFrame, estVars, scf, qtmRigidbodies_idxByName,
                   trackingFramesLost, follow, follow_position, target,
                   flyAway, rpc, cpc, hover, extpose>>

\* ---------------------------------------------------- the specifications

Next ==
    \/ QtmConnect
    \/ OnPacket
    \/ QtmClose
    \/ CfConnect
    \/ SetupFlight
    \/ SetupEstimator
    \/ WhileFly
    \/ CheckX
    \/ CheckY
    \/ CheckZ
    \/ CheckTracking
    \/ SelectController
    \/ SendSetpoint
    \/ Land
    \/ CloseQtm
    \/ OnPress
    \/ on_qtm_connect
    \/ qtm_receive_params
    \/ on_qtm_disconnect
    \/ on_qtm_event
    \/ on_qtm_packet
    \/ crazyflie_controller
    \/ ConnectCrazyflie
    \/ crazyflie_reset_estimator
    \/ crazyflie_fly

Spec == Init /\ [][Next]_vars

\* A tracking-loss run: every body is in the QTM project and follow.py's
\* feed holds the vehicle in place or loses it, so that the invalid-frame
\* counter runs up to the threshold of line 60 and MaxOverrun past it.
InitLoss ==
    /\ \/ script = "follow" /\ qtmBodies = <<"car", "CF">>
       \/ script = "body" /\ qtmBodies = <<"Tiara", "Crazyflie">>
       \/ script = "hover" /\ qtmBodies = <<"Wand", "Crazyflie">>
    /\ safeZone = BoundingBox
    /\ InitFollow
    /\ InitEstimator
    /\ InitExample
    /\ InitLink

NextLoss ==
    \/ QtmConnect
    \/ OnPacketLoss
    \/ QtmClose
    \/ CfConnect
    \/ SetupFlight
    \/ SetupEstimator
    \/ WhileFly
    \/ CheckX
    \/ CheckY
    \/ CheckZ
    \/ CheckTracking
    \/ SelectController
    \/ SendSetpoint
    \/ Land
    \/ CloseQtm
    \/ OnPress
    \/ on_qtm_connect
    \/ qtm_receive_params
    \/ on_qtm_disconnect
    \/ on_qtm_event
    \/ on_qtm_packet
    \/ crazyflie_controller
    \/ ConnectCrazyflie
    \/ crazyflie_reset_estimator
    \/ crazyflie_fly

SpecLoss == InitLoss /\ [][NextLoss]_vars

\* A run with another bounding box in the settings: the box as shipped, or
\* one whose floor is raised to 0.5 m, which does not hold the origin.
RaisedBox == [BoundingBox EXCEPT !.z_min = 50]
SafeZones == { BoundingBox, RaisedBox }

InitBox ==
    /\ \/ script = "follow" /\ qtmBodies \in FollowBodyLists
       \/ script = "body" /\ qtmBodies \in BodyBodyLists
       \/ script = "hover" /\ qtmBodies \in HoverBodyLists
    /\ safeZone \in SafeZones
    /\ InitFollow
    /\ InitEstimator
    /\ InitExample
    /\ InitLink

SpecBox == InitBox /\ [][Next]_vars

\* A run of the estimator gate: every body is in the QTM project, the
\* tracking feed holds the vehicle in place, and the Crazyflie reports
\* variances that jump by as much as the threshold.
OnPacketGate ==
    OnPacketFrom(GateCfSamples, LossControllerSamples, MaxInvalidRun)

\* ... and the operator's only key is the stop key
OnPressGate == OnPressFrom({"esc"})

NextGate ==
    \/ QtmConnect
    \/ OnPacketGate
    \/ QtmClose
    \/ CfConnect
    \/ SetupFlight
    \/ SetupEstimatorGate
    \/ WhileFly
    \/ CheckX
    \/ CheckY
    \/ CheckZ
    \/ CheckTracking
    \/ SelectController
    \/ SendSetpoint
    \/ Land
    \/ CloseQtm
    \/ OnPressGate
    \/ on_qtm_connect
    \/ qtm_receive_params
    \/ on_qtm_disconnect
    \/ on_qtm_event
    \/ on_qtm_packet
    \/ crazyflie_controller
    \/ ConnectCrazyflie
    \/ crazyflie_reset_estimatorGate
    \/ crazyflie_fly

SpecGate == InitLoss /\ [][NextGate]_vars

\* A run of sustained tracking loss: the feed of a tracking-loss run, QTM
\* stays connected (on_qtm_disconnect never runs), the operator's only key
\* selects the second controller, and every thread that can take a step
\* eventually takes one.
OnPressSustained == OnPressFrom({"2"})

NextSustained ==
    \/ QtmConnect
    \/ OnPacketLoss
    \/ QtmClose
    \/ CfConnect
    \/ SetupFlight
    \/ SetupEstimator
    \/ WhileFly
    \/ CheckX
    \/ CheckY
    \/ CheckZ
    \/ CheckTracking
    \/ SelectController
    \/ SendSetpoint
    \/ Land
    \/ CloseQtm
    \/ OnPressSustained
    \/ on_qtm_connect
    \/ qtm_receive_params
    \/ on_qtm_event
    \/ on_qtm_packet
    \/ crazyflie_controller
    \/ ConnectCrazyflie
    \/ crazyflie_reset_estimator
    \/ crazyflie_fly

\* the feed delivers a packet that counts as a lost frame
LostDelivery ==
    \/ /\ OnPacketLoss
       /\ cf_trackingLoss' = cf_trackingLoss + 1
    \/ /\ on_qtm_packet
       /\ trackingFramesLost' = trackingFramesLost + 1

\* the QtmWrapper thread and the reactor get the stream going
StartStream == QtmConnect \/ on_qtm_connect \/ qtm_receive_params

\* follow.py's main thread: the with block of 351-408
MainThread ==
    \/ CfConnect \/ SetupFlight \/ SetupEstimator \/ WhileFly
    \/ CheckX \/ CheckY \/ CheckZ \/ CheckTracking
    \/ SelectController \/ SendSetpoint \/ Land

\* the controller thread of an example script
ControllerThread ==
    \/ crazyflie_controller \/ ConnectCrazyflie
    \/ crazyflie_reset_estimator \/ crazyflie_fly

\* the stream starts before it delivers, and a run has one script: fairness
\* to the feed and fairness to the control activity
FairSustained ==
    /\ WF_vars(StartStream \/ LostDelivery)
    /\ WF_vars(MainThread \/ ControllerThread)

SpecSustained == InitLoss /\ [][NextSustained]_vars /\ FairSustained


\* ------------------------------------------------------------- the claims

\* what the claims say of a raw sample: some coordinate is NaN
RawHasNaN(raw) == \E i \in 1..3 : raw[i] = NaN

\* the sample in metres (hundredths), as the claims read it
InMetres(raw) == <<raw[1] \div 10, raw[2] \div 10, raw[3] \div 10>>

\* the full packet in which QTM reports c for the vehicle body and k for
\* every other body of the project
PacketWith(c, k) ==
    [has6d |-> TRUE, has6deuler |-> TRUE,
     pos |-> [i \in 1..Len(qtmBodies) |->
                IF qtmBodies[i] = cf_body_name THEN c ELSE k]]

\* the same for an example script's feed
ExamplePacketWith(c, o) ==
    [hasBodies |-> TRUE,
     pos |-> [i \in 1..Len(qtmBodies) |->
                IF qtmBodies[i] = CRAZYFLIE_RIGIDBODY_NAME THEN c ELSE o]]

\* the project holds the body called name
Tracked(name) == \E i \in 1..Len(qtmBodies) : qtmBodies[i] = name

C2_ValidSampleResets ==
    [][ (script = "follow" /\ qpc = "streaming" /\ Tracked(cf_body_name))
        => \A c \in {r \in CfSamples : ~RawHasNaN(r)} :
           \A k \in ControllerSamples :
              Deliver(PacketWith(c, k))
              => /\ cf_trackingLoss' = 0
                 /\ cf_pose' = InMetres(c)
      ]_vars

\* the box of the settings, without the margin
InBox(p) ==
    /\ x_min <= p[1] /\ p[1] <= x_max
    /\ y_min <= p[2] /\ p[2] <= y_max
    /\ z_min <= p[3] /\ p[3] <= z_max

\* C3: every position setpoint follow.py's control loop has sent lies in
\* [axis_min, axis_max] on each axis, the margin not added.
C3_SetpointInBox ==
    (script = "follow" /\ setpoint # <<>>) => InBox(setpoint)

\* C3's case: the controller is tracked outside the box on every axis, and
\* the setpoint sent is the corner of the box.
C3_Witness ==
    /\ script = "follow"
    /\ controller_poses[1] = Pose(150, -250, 140)
    /\ setpoint = <<x_max, y_min, z_max, 0>>

\* what the claims call strictly outside the margin, and on or outside it
StrictlyOutside(v, lo, hi) ==
    v < lo - safeZone_margin \/ v > hi + safeZone_margin
OnOrOutside(v, lo, hi) ==
    v <= lo - safeZone_margin \/ v >= hi + safeZone_margin

\* C4 as the spec states it: the bounding-box check of a tick trips landing
\* if and only if the last known vehicle pose is strictly outside
\* [min - margin, max + margin] on the axis it reads; a pose exactly on the
\* margin boundary does not trip.
C4_TripIffStrictlyOutside ==
    [][ /\ CheckX => (mpc' = "land" <=> StrictlyOutside(cf_pose[1], x_min, x_max))
        /\ CheckY => (mpc' = "land" <=> StrictlyOutside(cf_pose[2], y_min, y_max))
        /\ CheckZ => (mpc' = "land" <=> StrictlyOutside(cf_pose[3], z_min, z_max))
      ]_vars

\* C4 as the code has it (369-374, strict comparisons on both sides): the
\* bounding-box check trips landing if and only if the last known vehicle
\* pose is on or outside the margin boundary on the axis it reads; only a
\* pose strictly inside (min - margin, max + margin), the band between the
\* box and the margin included, lets the tick go on.
C4_TripIffOnOrOutside ==
    [][ /\ CheckX => (mpc' = "land" <=> OnOrOutside(cf_pose[1], x_min, x_max))
        /\ CheckY => (mpc' = "land" <=> OnOrOutside(cf_pose[2], y_min, y_max))
        /\ CheckZ => (mpc' = "land" <=> OnOrOutside(cf_pose[3], z_min, z_max))
      ]_vars

\* C4's case: landing has been tripped, nobody asked to stop, tracking is
\* not lost, and the vehicle is exactly on the margin boundary of x.
C4_Witness ==
    /\ script = "follow"
    /\ mpc = "land"
    /\ landIdx = 1
    /\ fly
    /\ cf_trackingLoss = 0
    /\ cf_pose = Pose(x_max + safeZone_margin, 0, 50)

\* C5: a tick reports tracking lost if and only if the vehicle's
\* invalid-frame counter is strictly greater than the threshold; with the
\* counter at the threshold or below, follow.py's tick goes on to select and
\* compose, and an example script's tick sends the setpoint of its target
\* and no stop command.
C5_LostIffAboveThreshold ==
    [][ /\ CheckTracking =>
             /\ mpc' = "land" <=> cf_trackingLoss > cf_trackingLoss_treshold
             /\ cf_trackingLoss <= cf_trackingLoss_treshold => mpc' = "select"
        /\ crazyflie_fly =>
             /\ stopSent' <=> trackingFramesLost > FRAME_LOSS_THRESHOLD
             /\ (trackingFramesLost <= FRAME_LOSS_THRESHOLD /\ TickTarget # <<>>)
                => /\ setpoint' = convert_coords_to_setpoint(TickTarget)
                   /\ ~exited'
      ]_vars

\* C5's case: the counter stands at the threshold and the tick has passed
\* the tracking check.
C5_Witness ==
    /\ script = "follow"
    /\ cf_trackingLoss = cf_trackingLoss_treshold
    /\ mpc = "select"

\* the hover heights of a complete landing, in hundredths of a metre
FullLanding == <<50, 40, 30, 20, 10>>

\* C6: once flight has started, whichever way the control loop ends (safety
\* trip, operator stop, exception in the loop), the descending hover
\* setpoints have been emitted before the session goes on to end.
C6_LandingOnEveryExit ==
    (script = "follow" /\ mpc \in {"crashed", "close", "join", "done"})
    => hover = FullLanding

\* C7 as the spec states it: the landing sequence culminates in a stop
\* command sent after the last hover setpoint.
C7_LandingEndsWithStop ==
    (script = "follow" /\ mpc \in {"close", "join", "done"}) => stopSent

\* C7 as the code has it (404-408): the landing sequence is the fixed series
\* of 5 hover setpoints 0.5, 0.4, 0.3, 0.2, 0.1 m, each strictly below the
\* one before; after the last one the link is closed and no stop command has
\* been sent.
C7_FiveDescendingHovers ==
    script = "follow" =>
      /\ Len(hover) <= 5
      /\ \A i \in 1..Len(hover) : hover[i] = FullLanding[i]
      /\ \A i \in 1..(Len(hover) - 1) : hover[i + 1] < hover[i]
      /\ mpc \in {"close", "join", "done"}
         => (Len(hover) = 5 /\ ~linkOpen /\ ~stopSent)

\* C7's case: the landing loop has run to its end and the session is over.
C7_Witness ==
    /\ script = "follow"
    /\ mpc = "done"
    /\ hover = FullLanding
    /\ ~stopSent

\* C8: after any sequence of key presses the selected target index is a
\* valid index into the configured controller list.
C8_SelectionValid ==
    script = "follow" => controller_select < Len(controller_body_names)

\* the body table holds the vehicle body and every controller body
AllBodiesResolved ==
    /\ cf_body_name \in DOMAIN bodyToIdx
    /\ \A i \in 1..Len(controller_body_names) :
          controller_body_names[i] \in DOMAIN bodyToIdx

\* C9: no position setpoint is emitted unless the body table has been
\* populated and holds the vehicle body and every controller body.
C9_NoFlightWithoutBodies ==
    (script = "follow" /\ setpoint # <<>>) => AllBodiesResolved

\* no coordinate of the tuple is NaN
Finite(t) == \A i \in 1..Len(t) : t[i] # NaN

C11_CaptureStoppedTerminates ==
    [][ OnEvent("EventCaptureStopped")
        => /\ exited'
           /\ follow' = follow
           /\ flyAway' = flyAway
      ]_vars

\* C12: on every exit path of follow.py's main thread (landing done, or an
\* exception in the control loop) the vehicle link has been closed, and the
\* QTM stream has been stopped and disconnected or its thread has been told
\* to do so.
C12_ReleasedOnEveryExit ==
    (script = "follow" /\ mpc \in {"crashed", "done"})
    => /\ ~linkOpen
       /\ qpc = "closed" \/ ~stay_open

\* where follow.py's main thread is once the control loop has been left for
\* landing
Landing == {"land", "close", "join", "done"}

\* C13: a safety trip is final.  The tick whose bounds or tracking check
\* trips emits no position setpoint; once follow.py has left the loop for
\* landing it never returns to it and no position setpoint is emitted again,
\* whatever samples arrive; in example-follow-body.py the tick that finds
\* tracking lost emits no position setpoint and ends the process.
C13_TripIrreversible ==
    [][ /\ (script = "follow" /\ mpc \in Landing)
           => (mpc' \in Landing /\ setpoint' = setpoint)
        /\ (CheckX \/ CheckY \/ CheckZ \/ CheckTracking)
           => setpoint' = setpoint
        /\ ( /\ script = "body"
             /\ crazyflie_fly
             /\ trackingFramesLost > BODY_FRAME_LOSS_THRESHOLD )
           => (exited' /\ setpoint' = setpoint)
        /\ (script = "body" /\ exited) => (exited' /\ setpoint' = setpoint)
      ]_vars

\* C13's case: the loop was left by a trip (nobody asked to stop), setpoints
\* had been sent before it, the vehicle is tracked inside the box again, and
\* the session has ended.
C13_Witness ==
    /\ script = "follow"
    /\ mpc = "done"
    /\ fly
    /\ setpoint # <<>>
    /\ cf_trackingLoss = 0
    /\ cf_pose = Pose(0, 0, 50)

\* C14: while no valid vehicle pose has ever been received (here: the QTM
\* stream has not even started, so cf_pose is the Pose(0, 0, 0) of line
\* 129), the bounding-box check of a tick does not trip landing, whatever
\* bounding box the settings hold.
C14_SafeBeforeFirstPose ==
    [][ ( /\ script = "follow"
          /\ qpc = "connect"
          /\ CheckX \/ CheckY \/ CheckZ )
        => mpc' # "land"
      ]_vars

\* the home position the running example script is configured with
HomeOfScript ==
    IF script = "body" THEN BODY_HOME_POSITION ELSE HOVER_HOME_POSITION

\* C15: the first setpoint the control loop of an example script emits
\* targets the configured home position, whatever events arrived before that
\* tick.
C15_FirstSetpointHome ==
    [][ (crazyflie_fly /\ setpoint = <<>> /\ setpoint' # <<>>)
        => setpoint' = convert_coords_to_setpoint(HomeOfScript)
      ]_vars

\* the packets that lack the component carrying the vehicle's data (6d) or
\* the one carrying the controllers' (6deuler)
MissingPackets ==
    { [has6d |-> FALSE, has6deuler |-> TRUE, pos |-> <<>>],
      [has6d |-> TRUE, has6deuler |-> FALSE, pos |-> <<>>] }

\* C16: a packet that omits the tracked data counts as an invalid sample: in
\* no state of follow.py's stream can _on_packet take such a packet without
\* adding 1 to the vehicle's invalid-frame counter and leaving the stored
\* pose as it was.
C16_MissingDataCounted ==
    (script = "follow" /\ qpc = "streaming")
    => \A pkt \in MissingPackets :
          ~ENABLED ( /\ Deliver(pkt)
                     /\ ~( /\ cf_trackingLoss' = cf_trackingLoss + 1
                           /\ cf_pose' = cf_pose ) )

\* every pose _on_packet can have committed to cf_pose in a run of Spec, and
\* the pose cf_pose starts with
CommittedPoses ==
    {Pose(0, 0, 0)} \cup { InMetres(c) : c \in {r \in CfSamples : ~RawHasNaN(r)} }

\* C17: the coordinates one tick's bounding-box check has read are those of
\* one single committed pose: never x of one sample with y or z of another.
C17_AtomicSnapshot ==
    script = "follow"
    => \E p \in CommittedPoses :
          \A i \in 1..Len(boxRead) : boxRead[i] = p[i]

\* a window holds 10 samples and no two of them are the threshold (0.001)
\* or more apart
Settled(h) ==
    /\ Len(h) = 10
    /\ \A i \in 1..Len(h) : \A j \in 1..Len(h) : h[i] - h[j] < 10

\* the three variance windows as the estimator wait has left them
WindowsSettled ==
    Settled(var_x_history) /\ Settled(var_y_history) /\ Settled(var_z_history)

\* C18: the estimator gate precedes flight.  The wait of setup_estimator
\* (follow.py) and of crazyflie_reset_estimator (the examples) ends only on
\* windows of the last 10 variance samples whose max minus min is below the
\* threshold on each of the three axes, and no position setpoint has been
\* emitted before it has ended.
C18_GateBeforeFlight ==
    [][ /\ ( \/ mpc = "estimator" /\ mpc' # "estimator"
             \/ cpc = "estimator" /\ cpc' # "estimator" )
           => WindowsSettled'
        /\ setpoint' # <<>>
           => /\ WindowsSettled'
              /\ script = "follow" => mpc \notin {"connect", "setup", "estimator"}
              /\ script # "follow" => cpc = "fly"
      ]_vars

\* C18's case: the gate has opened on windows that hold a sample away from
\* the steady value, but within the threshold of it, and a position setpoint
\* has been emitted after it.
C18_Witness ==
    /\ script = "follow"
    /\ setpoint # <<>>
    /\ \E i \in 1..Len(var_z_history) : var_z_history[i] = 7

\* the mode flag of an example script: follow in example-follow-body.py,
\* flyAway in example-simple-hover.py (FALSE is Home)
Mode == IF script = "body" THEN follow ELSE flyAway

\* C19: the mode changes only on a toggle event and each toggle event flips
\* it: a trigger event negates the mode flag, an event of any other kind
\* leaves it as it was, and a step that changes the flag is a trigger event.
C19_ModeChangesOnToggleOnly ==
    [][ /\ IsExample
           => \A event \in QtmEvents :
                 OnEvent(event)
                 => Mode' = (IF event = "EventTrigger" THEN ~Mode ELSE Mode)
        /\ (IsExample /\ Mode' # Mode) => OnEvent("EventTrigger")
      ]_vars

\* a position shifted by an offset on each axis, with yaw 0
Shifted(pos, off) == <<pos[1] + off[1], pos[2] + off[2], pos[3] + off[3], 0>>

\* C20: in Follow the candidate target of a tick is the followed body's
\* last-known valid position plus the offset on each axis, yaw 0, and in
\* Home it is the configured home pose.  follow.py: the loop selects the
\* stored pose of the selected controller and sends the clamped sum of it and
\* the operator's offset.  example-follow-body.py: a valid sample of the
\* target body, once the vehicle is connected, becomes the stored follow
\* position (sample plus FOLLOW_OFFSET, yaw 0); a tick in Follow converts
\* that stored position, and a tick in Home converts HOME_POSITION.
C20_FollowTargetsLastValid ==
    [][ /\ (script = "follow" /\ mpc = "select" /\ mpc' = "send")
           => controller_pose' = controller_poses[controller_select + 1]
        /\ (script = "follow" /\ mpc = "send" /\ mpc' = "while")
           => setpoint' = KeepInBox(Shifted(controller_pose,
                                            controller_offset))
        /\ (script = "body" /\ rpc = "streaming" /\ scf
               /\ Tracked(CRAZYFLIE_RIGIDBODY_NAME)
               /\ Tracked(TARGET_RIGIDBODY_NAME))
           => \A o \in {r \in ExampleOtherSamples : ~RawHasNaN(r)} :
              \A c \in ExampleCfSamples :
                 ExampleDeliver(ExamplePacketWith(c, o))
                 => follow_position' = Shifted(InMetres(o), FOLLOW_OFFSET)
        /\ (script = "body" /\ crazyflie_fly
               /\ TrackingGood(trackingFramesLost))
           => IF follow
              THEN /\ follow_position # <<>>
                   /\ setpoint' = convert_coords_to_setpoint(follow_position)
              ELSE setpoint' = convert_coords_to_setpoint(BODY_HOME_POSITION)
      ]_vars

\* the tracking state: stored poses and invalid-frame counters
TrackingState ==
    <<cf_pose, cf_trackingLoss, controller_poses, trackingFramesLost,
      follow_position>>

\* the mode: the Home/Follow flags, the target they select, the selected
\* controller and the operator's offset
ModeState == <<follow, flyAway, target, controller_select, controller_offset>>

\* a step of the control activity: follow.py's main thread, and in the
\* examples crazyflie_controller with all it calls
ControlStep ==
    \/ CfConnect \/ SetupFlight \/ SetupEstimator \/ WhileFly
    \/ CheckX \/ CheckY \/ CheckZ \/ CheckTracking
    \/ SelectController \/ SendSetpoint \/ Land \/ CloseQtm
    \/ crazyflie_controller \/ ConnectCrazyflie
    \/ crazyflie_reset_estimator \/ crazyflie_fly

\* C21: ownership of shared state.  A step of the control activity, its
\* startup included, leaves the tracking state and the mode as they were; a
\* packet step leaves the mode as it was; a step that changes the mode is a
\* key press or a QTM event.
C21_OwnershipRespected ==
    [][ /\ ControlStep => UNCHANGED <<TrackingState, ModeState>>
        /\ (OnPacket \/ on_qtm_packet) => UNCHANGED ModeState
        /\ ModeState' # ModeState => (OnPress \/ on_qtm_event)
      ]_vars

\* a packet step that delivers a valid sample of the vehicle
ValidVehicleStep ==
    \/ /\ script = "follow"
       /\ \E c \in {r \in LossCfSamples : ~RawHasNaN(r)} :
          \E k \in LossControllerSamples : Deliver(PacketWith(c, k))
    \/ /\ IsExample
       /\ \E c \in {r \in ExampleCfSamples : ~RawHasNaN(r)} :
          \E o \in ExampleOtherSamples :
             ExampleDeliver(ExamplePacketWith(c, o))

\* the flight has ended in the landing or stop output
FlightEnded == IF script = "follow" THEN mpc \in Landing ELSE stopSent

\* the feed has gone on delivering lost frames past the threshold
LossExceeded ==
    IF script = "follow" THEN cf_trackingLoss > cf_trackingLoss_treshold
    ELSE trackingFramesLost > FRAME_LOSS_THRESHOLD

\* C22: sustained tracking loss always ends the flight.  If from some point
\* on no packet step delivers a valid sample of the vehicle, then with fair
\* scheduling of the feed and of the control activity there comes a point
\* from which lost frames past the threshold are always answered: the
\* control loop has left flight for its landing (follow.py) or has sent the
\* stop command (the examples).
C22_SustainedLossEndsFlight ==
    <>[][~ValidVehicleStep]_vars => <>[](LossExceeded => FlightEnded)

\* C23: the vehicle's counter and the pose forwarded to the vehicle depend on
\* the vehicle body's samples alone.  With forwarding set up (follow.py's
\* on_cf_pose installed, the example's scf connected), a packet whose vehicle
\* sample is valid and whose other body's sample has a NaN still forwards
\* the vehicle's pose and leaves the vehicle's invalid-frame counter at 0.
C23_VehicleIndependentOfTarget ==
    [][ /\ (script = "follow" /\ qpc = "streaming" /\ on_cf_pose
               /\ Tracked(cf_body_name))
           => \A c \in {r \in CfSamples : ~RawHasNaN(r)} :
              \A k \in {r \in ControllerSamples : RawHasNaN(r)} :
                 Deliver(PacketWith(c, k))
                 => /\ extpose' = InMetres(c)
                    /\ cf_trackingLoss' = 0
        /\ (script = "body" /\ rpc = "streaming" /\ scf
               /\ Tracked(CRAZYFLIE_RIGIDBODY_NAME)
               /\ Tracked(TARGET_RIGIDBODY_NAME))
           => \A c \in {r \in ExampleCfSamples : ~RawHasNaN(r)} :
              \A o \in {r \in ExampleOtherSamples : RawHasNaN(r)} :
                 ExampleDeliver(ExamplePacketWith(c, o))
                 => /\ extpose' = InMetres(c)
                    /\ trackingFramesLost' = 0
      ]_vars

\* C24: in example-simple-hover.py the commanded target and the away flag
\* agree in every reachable state: the target is AWAY_POSITION exactly when
\* flyAway is set and HOME_POSITION exactly when it is clear.
C24_TargetMatchesFlag ==
    script = "hover"
    => target = (IF flyAway THEN AWAY_POSITION ELSE HOVER_HOME_POSITION)

\* C25: in example-follow-body.py, whenever a tick of crazyflie_fly is due in
\* follow mode with the tracking check passing, the follow position it
\* converts is defined, so the tick does not fail on it.
C25_FollowPositionDefined ==
    ( /\ script = "body" /\ ~exited /\ cpc = "fly"
      /\ follow /\ TrackingGood(trackingFramesLost) )
    => /\ follow_position # <<>>
       /\ ~ENABLED (crazyflie_fly /\ exited')

=============================================================================
